---- MODULE Spec2Model ----
(***************************************************************************)
(* A model of mobile_block.py: the block-id codec of MobileBlock           *)
(* (MobileBlock.factory / MobileBlock.block_id), the construction of the   *)
(* stage pipeline, the shapes forward produces, and ShuffleBlock.forward.  *)
(*                                                                         *)
(* A Python str is a sequence of one-character strings; a Python int is an *)
(* integer (Python ints do not overflow).                                  *)
(***************************************************************************)
EXTENDS Integers, Sequences, FiniteSets, TLC

VARIABLES
  torch_zero_init, \* the installed torch initialises zero-element weights as a no-op
  calls,           \* the calls made on MobileBlock so far, each with what it returned
  module,          \* the nn.Module under test in the forward runs
  x,               \* the tensor given to module.forward
  y,               \* what module.forward returned
  block_factory    \* the BlockFactory returned by BlockFactory.factory

vars == <<torch_zero_init, calls, module, x, y, block_factory>>

None == [kind |-> "None"]

\* a function on 1..n as the tuple of its values (each evaluated once)
AsTuple(f) == <<>> \o f

(***************************************************************************)
(* Python's str and int primitives used by the codec.                      *)
(***************************************************************************)
ascii_uppercase ==
  <<"A","B","C","D","E","F","G","H","I","J","K","L","M",
    "N","O","P","Q","R","S","T","U","V","W","X","Y","Z">>

ascii_lowercase ==
  <<"a","b","c","d","e","f","g","h","i","j","k","l","m",
    "n","o","p","q","r","s","t","u","v","w","x","y","z">>

digits == <<"0","1","2","3","4","5","6","7","8","9">>

isdigit(c) == \E i \in 1..Len(digits) : digits[i] = c

\* str.lower() on one character: an upper-case letter maps to its lower-case
\* letter, every other character is kept.
lower_char(c) ==
  IF \E i \in 1..Len(ascii_uppercase) : ascii_uppercase[i] = c
  THEN ascii_lowercase[CHOOSE i \in 1..Len(ascii_uppercase) : ascii_uppercase[i] = c]
  ELSE c

\* lower() forgotten: the string is matched as given
lower_skipped(s) == s

\* block_id.lower()
lower(s) == AsTuple([i \in 1..Len(s) |-> lower_char(s[i])])

\* int() reading the digits from the right: the first digit counts least
RECURSIVE int_reversed(_)
int_reversed(s) ==
  IF Len(s) = 0 THEN 0
  ELSE 10 * int_reversed(Tail(s))
       + ((CHOOSE i \in 1..Len(digits) : digits[i] = s[1]) - 1)

\* int(value) for a string of decimal digits (what (\d+) captures)
RECURSIVE int(_)
int(s) ==
  IF Len(s) = 0 THEN 0
  ELSE 10 * int(SubSeq(s, 1, Len(s) - 1))
       + ((CHOOSE i \in 1..Len(digits) : digits[i] = s[Len(s)]) - 1)

\* formatting that keeps the last digit only
format_int_last_digit(n) == <<digits[(n % 10) + 1]>>

\* f'{n}' for an int n: decimal, no leading zeros, '-' for a negative number
RECURSIVE format_int(_)
format_int(n) ==
  IF n < 0 THEN <<"-">> \o format_int(0 - n)
  ELSE IF n < 10 THEN <<digits[n + 1]>>
  ELSE format_int(n \div 10) \o <<digits[(n % 10) + 1]>>

\* sep.join(parts)
RECURSIVE join(_, _)
join(sep, parts) ==
  IF Len(parts) = 0 THEN <<>>
  ELSE IF Len(parts) = 1 THEN parts[1]
  ELSE parts[1] \o sep \o join(sep, Tail(parts))

(***************************************************************************)
(* re.findall(r'w(\d+)_i(\d+)_o(\d+)_s(\d+)_e(\d+)_k(\d+)_g(\d+)', s)      *)
(* The pattern is a sequence of tokens: a literal character, or the        *)
(* capturing group (\d+), written "(\\d+)".                                *)
(***************************************************************************)
DigitsGroup == "(\\d+)"

pattern ==
  <<"w", DigitsGroup, "_", "i", DigitsGroup, "_", "o", DigitsGroup, "_",
    "s", DigitsGroup, "_", "e", DigitsGroup, "_", "k", DigitsGroup, "_",
    "g", DigitsGroup>>

NoMatch == [ok |-> FALSE, end |-> 0, groups |-> <<>>]

\* the number of consecutive digits of s from position p on
digit_run(s, p) ==
  LET stops == {q \in p..Len(s) : ~isdigit(s[q])}
  IN IF stops = {} THEN Len(s) + 1 - p
     ELSE (CHOOSE q \in stops : \A r \in stops : q <= r) - p

\* The backtracking match of pattern[k..] against s at position p: a literal
\* must equal the character; (\d+) is greedy, taking the longest run of one
\* or more digits after which the rest of the pattern still matches.
RECURSIVE match_from(_, _, _)
match_from(s, p, k) ==
  IF k > Len(pattern) THEN [ok |-> TRUE, end |-> p - 1, groups |-> <<>>]
  ELSE IF pattern[k] # DigitsGroup
  THEN IF p <= Len(s) /\ s[p] = pattern[k] THEN match_from(s, p + 1, k + 1)
       ELSE NoMatch
  ELSE LET rest == [n \in 1..digit_run(s, p) |-> match_from(s, p + n, k + 1)]
           lens == {n \in DOMAIN rest : rest[n].ok}
       IN IF lens = {} THEN NoMatch
          ELSE LET n == CHOOSE m \in lens : \A l \in lens : l <= m
               IN [ok |-> TRUE, end |-> rest[n].end,
                   groups |-> <<SubSeq(s, p, p + n - 1)>> \o rest[n].groups]

\* findall scans left to right from p: the next match is the one at the first
\* position where the pattern matches, and the scan goes on behind it (matches
\* do not overlap).  The result is the list of the matches' group tuples.
RECURSIVE findall_from(_, _)
findall_from(s, p) ==
  LET found == {q \in p..Len(s) : match_from(s, q, 1).ok}
  IN IF found = {} THEN <<>>
     ELSE LET m == match_from(s, CHOOSE q \in found : \A r \in found : q <= r, 1)
          IN <<m.groups>> \o findall_from(s, m.end + 1)

findall(s) == findall_from(s, 1)

(***************************************************************************)
(* The stages torch.nn builds.  nn.Conv2d validates its arguments when it  *)
(* is constructed; BatchNorm2d, ReLU, Sequential and ShuffleBlock take     *)
(* what they are given.  An exception is a record of kind "raise"; a torch *)
(* message is kept as one token.                                           *)
(***************************************************************************)
Raise(exception, message) ==
  [kind |-> "raise", exception |-> exception, message |-> message]

\* nn.Conv2d(in_channels, out_channels, kernel_size, stride, padding, groups,
\* bias=False): groups must be positive and divide both channel counts; the
\* weight has shape (out_channels, in_channels // groups, k, k), and a torch
\* that does not skip zero-element weights fails initialising one.
nn_Conv2d(in_channels, out_channels, kernel_size, stride, padding, groups) ==
  IF groups <= 0
  THEN Raise("ValueError", <<"groups must be a positive integer">>)
  ELSE IF in_channels % groups # 0
  THEN Raise("ValueError", <<"in_channels must be divisible by groups">>)
  ELSE IF out_channels % groups # 0
  THEN Raise("ValueError", <<"out_channels must be divisible by groups">>)
  ELSE IF /\ ~torch_zero_init
          /\ (out_channels = 0 \/ in_channels \div groups = 0 \/ kernel_size = 0)
  THEN Raise("ZeroDivisionError", <<"zero-element weight">>)
  ELSE [kind |-> "Conv2d", in_channels |-> in_channels,
        out_channels |-> out_channels, kernel_size |-> kernel_size,
        stride |-> stride, padding |-> padding, groups |-> groups]

batch_norm_2d(num_features) == [kind |-> "BatchNorm2d", num_features |-> num_features]

relu == [kind |-> "ReLU"]

nn_Sequential == [kind |-> "Sequential"]

\* ShuffleBlock.__init__
ShuffleBlock(groups) == [kind |-> "ShuffleBlock", groups |-> groups]

(***************************************************************************)
(* MobileBlock.__init__: the seven fields are stored, then the stages of   *)
(* self.block are built in order; the first stage that raises ends the     *)
(* construction, and no MobileBlock exists.                                *)
(***************************************************************************)
\* the constructor with the depthwise stage left unpadded
MobileBlock_unpadded(input_size, in_channels, out_channels, stride, expansion, kernel, groups) ==
  LET inner_channels == in_channels * expansion
      stages ==
        << nn_Conv2d(in_channels, inner_channels, 1, 1, 0, groups),
           batch_norm_2d(inner_channels),
           relu,
           IF groups > 1 THEN ShuffleBlock(groups) ELSE nn_Sequential,
           nn_Conv2d(inner_channels, inner_channels, kernel, stride, 0, inner_channels),
           batch_norm_2d(inner_channels),
           relu,
           nn_Conv2d(inner_channels, out_channels, 1, 1, 0, groups),
           batch_norm_2d(out_channels) >>
      raising == {i \in 1..Len(stages) : stages[i].kind = "raise"}
  IN IF raising # {}
     THEN stages[CHOOSE i \in raising : \A j \in raising : i <= j]
     ELSE [kind |-> "MobileBlock",
           input_size |-> input_size, in_channels |-> in_channels,
           out_channels |-> out_channels, stride |-> stride,
           expansion |-> expansion, kernel |-> kernel, groups |-> groups,
           block |-> stages]

MobileBlock(input_size, in_channels, out_channels, stride, expansion, kernel, groups) ==
  LET inner_channels == in_channels * expansion
      stages ==
        << \* pixel wise
           nn_Conv2d(in_channels, inner_channels, 1, 1, 0, groups),
           batch_norm_2d(inner_channels),
           relu,
           IF groups > 1 THEN ShuffleBlock(groups) ELSE nn_Sequential,
           \* depth wise
           nn_Conv2d(inner_channels, inner_channels, kernel, stride,
                     kernel \div 2, inner_channels),
           batch_norm_2d(inner_channels),
           relu,
           \* pixel wise
           nn_Conv2d(inner_channels, out_channels, 1, 1, 0, groups),
           batch_norm_2d(out_channels) >>
      raising == {i \in 1..Len(stages) : stages[i].kind = "raise"}
  IN IF raising # {}
     THEN stages[CHOOSE i \in raising : \A j \in raising : i <= j]
     ELSE [kind |-> "MobileBlock",
           input_size |-> input_size, in_channels |-> in_channels,
           out_channels |-> out_channels, stride |-> stride,
           expansion |-> expansion, kernel |-> kernel, groups |-> groups,
           block |-> stages]

\* block_id with the kernel written before the expansion
block_id_kernel_first(self) ==
  join(<<"_">>,
       << <<"w">> \o format_int(self.input_size),
          <<"i">> \o format_int(self.in_channels),
          <<"o">> \o format_int(self.out_channels),
          <<"s">> \o format_int(self.stride),
          <<"k">> \o format_int(self.kernel),
          <<"e">> \o format_int(self.expansion),
          <<"g">> \o format_int(self.groups) >>)

\* block_id with the stride written where the input size belongs
block_id_stride_first(self) ==
  join(<<"_">>,
       << <<"w">> \o format_int(self.stride),
          <<"i">> \o format_int(self.in_channels),
          <<"o">> \o format_int(self.out_channels),
          <<"s">> \o format_int(self.input_size),
          <<"e">> \o format_int(self.expansion),
          <<"k">> \o format_int(self.kernel),
          <<"g">> \o format_int(self.groups) >>)

\* MobileBlock.block_id (property)
block_id(self) ==
  join(<<"_">>,
       << <<"w">> \o format_int(self.input_size),
          <<"i">> \o format_int(self.in_channels),
          <<"o">> \o format_int(self.out_channels),
          <<"s">> \o format_int(self.stride),
          <<"e">> \o format_int(self.expansion),
          <<"k">> \o format_int(self.kernel),
          <<"g">> \o format_int(self.groups) >>)

ParseErrorPrefix == <<"P","a","r","s","e","E","r","r","o","r",":"," ">>

\* factory reporting the lower-cased string in its error
factory_lowered_message(id) ==
  LET parse == findall(lower(id))
  IN IF Len(parse) = 0
     THEN [args |-> <<>>, ret |-> Raise("ValueError", ParseErrorPrefix \o lower(id))]
     ELSE LET v == AsTuple([k \in 1..7 |-> int(parse[1][k])])
          IN [args |-> v,
              ret |-> MobileBlock(v[1], v[2], v[3], v[4], v[5], v[6], v[7])]

\* factory taking the last match (parse[-1]) instead of the first
factory_last_match(id) ==
  LET parse == findall(lower(id))
  IN IF Len(parse) = 0
     THEN [args |-> <<>>, ret |-> Raise("ValueError", ParseErrorPrefix \o id)]
     ELSE LET v == AsTuple([k \in 1..7 |-> int(parse[Len(parse)][k])])
          IN [args |-> v,
              ret |-> MobileBlock(v[1], v[2], v[3], v[4], v[5], v[6], v[7])]

\* MobileBlock.factory(block_id): args are the arguments handed to cls(...)
\* (empty when the constructor is never called), ret what the call returns.
factory(id) ==
  LET parse == findall(lower(id))
  IN IF Len(parse) = 0
     THEN [args |-> <<>>, ret |-> Raise("ValueError", ParseErrorPrefix \o id)]
     ELSE LET v == AsTuple([k \in 1..7 |-> int(parse[1][k])])
          IN [args |-> v,
              ret |-> MobileBlock(v[1], v[2], v[3], v[4], v[5], v[6], v[7])]

(***************************************************************************)
(* The strings and the constructor arguments the runs draw from.           *)
(***************************************************************************)
MaxDigits == 2   \* the longest value of a field of a generated id
MaxJunk == 2     \* the longest text put before or after an id
MaxVal == 2      \* the largest channel count, expansion and groups constructed directly

Tags == <<"w", "i", "o", "s", "e", "k", "g">>

\* tag and value of each field, the fields joined by '_'
IdText(tags, values) ==
  join(<<"_">>, [k \in 1..Len(tags) |-> <<tags[k]>> \o values[k]])

Strings(chars, n) == [1..n -> chars]

StringsUpTo(chars, n) == UNION {Strings(chars, m) : m \in 0..n}

ModelDigits == {"0", "1", "2"}

\* ids with one-digit values: every combination of in_channels, out_channels,
\* expansion and groups, with input_size, stride and kernel all the same digit
ShortIds ==
  {IdText(Tags, << <<d>>, <<i>>, <<o>>, <<d>>, <<e>>, <<d>>, <<g>> >>) :
     d \in ModelDigits, i \in ModelDigits, o \in ModelDigits,
     e \in ModelDigits, g \in ModelDigits}

\* ids with one longer value (leading zeros included), the others being 1
LongIds ==
  {IdText(Tags, [k \in 1..7 |-> IF k = pos THEN d ELSE <<o>>]) :
     pos \in 1..7, o \in {"1"},
     d \in UNION {Strings(ModelDigits, n) : n \in 2..MaxDigits}}

BaseFields ==
  { << <<"1","1","2">>, <<"1","6">>, <<"3","2">>, <<"1">>, <<"1","0">>, <<"3">>, <<"2">> >>,
    << <<"7">>, <<"2">>, <<"4">>, <<"1">>, <<"3">>, <<"5">>, <<"1">> >>,
    << <<"0","7">>, <<"2">>, <<"4">>, <<"0","0","1">>, <<"3">>, <<"5">>, <<"0","2">> >>,
    << <<"1">>, <<"1">>, <<"1">>, <<"1">>, <<"1">>, <<"1">>, <<"2">> >> }

BaseIds == {IdText(Tags, f) : f \in BaseFields}

\* the ids that text is put around and that are damaged
PlainFields ==
  { << <<"1","1","2">>, <<"1","6">>, <<"3","2">>, <<"1">>, <<"1","0">>, <<"3">>, <<"2">> >>,
    << <<"0","7">>, <<"2">>, <<"4">>, <<"0","0","1">>, <<"3">>, <<"5">>, <<"0","2">> >> }

PlainIds == {IdText(Tags, f) : f \in PlainFields}

upper_char(c) ==
  IF \E i \in 1..Len(ascii_lowercase) : ascii_lowercase[i] = c
  THEN ascii_uppercase[CHOOSE i \in 1..Len(ascii_lowercase) : ascii_lowercase[i] = c]
  ELSE c

upper(s) == AsTuple([i \in 1..Len(s) |-> upper_char(s[i])])

swapcase_char(c) == IF upper_char(c) = c THEN lower_char(c) ELSE upper_char(c)

\* s with the case of its letters changed: all upper, all lower, all swapped,
\* and every other character upper or swapped
Recasings(s) ==
  { upper(s), lower(s),
    [p \in 1..Len(s) |-> swapcase_char(s[p])],
    [p \in 1..Len(s) |-> IF p % 2 = 1 THEN upper_char(s[p]) ELSE s[p]],
    [p \in 1..Len(s) |-> IF p % 2 = 0 THEN swapcase_char(s[p]) ELSE s[p]] }

JunkChars == {"x", "2", "W"}

Junk == StringsUpTo(JunkChars, MaxJunk)

\* an id with text before it, after it, or both
Decorated ==
  {j \o b : j \in Junk, b \in PlainIds}
    \cup {b \o j : j \in Junk, b \in PlainIds}
    \cup {j \o b \o k : j \in Strings(JunkChars, 1), k \in Strings(JunkChars, 1),
                        b \in PlainIds}

\* two different ids in one string, with or without text before and between
Doubled ==
  {t[1] \o t[2] \o t[3] \o t[4] :
     t \in {u \in StringsUpTo(JunkChars, 1) \X PlainIds \X StringsUpTo(JunkChars, 1) \X BaseIds :
              u[2] # u[4]}}

Without(s, p) == SubSeq(s, 1, p - 1) \o SubSeq(s, p + 1, Len(s))

Swapped(f, k) == [f EXCEPT ![k] = f[k + 1], ![k + 1] = f[k]]

\* ids with a character dropped or replaced, a field missing, two fields in
\* the wrong order, and strings that are no id at all
Malformed ==
  UNION {
    {Without(b, p) : p \in 1..Len(b)} \cup {[b EXCEPT ![p] = "X"] : p \in 1..Len(b)}
    : b \in PlainIds \cup {upper(c) : c \in PlainIds} }
  \cup {IdText(Swapped(Tags, k), Swapped(f, k)) : k \in 1..6, f \in PlainFields}
  \cup {IdText(Without(Tags, k), Without(f, k)) : k \in 1..7, f \in PlainFields}
  \cup { <<>>,
         <<"n","o","t","_","a","_","v","a","l","i","d","_","i","d">>,
         <<"N","o","t","_","A","_","V","a","l","i","d","_","I","d">>,
         <<"w","_","i","_","o","_","s","_","e","_","k","_","g">> }

Inputs ==
  ShortIds \cup LongIds \cup BaseIds \cup {upper(b) : b \in BaseIds}
    \cup Decorated \cup Doubled \cup Malformed

\* the arguments of direct constructions: (input_size, in_channels,
\* out_channels, stride, expansion, kernel, groups)
ConstructArgs ==
  { <<112, 16, 32, 1, 10, 3, 2>> }
    \cup { <<w, i, o, s, e, k, g>> :
             w \in {7}, i \in 0..MaxVal, o \in 0..MaxVal, s \in {1, 2},
             e \in 0..MaxVal, k \in {1, 3}, g \in 0..MaxVal }

(***************************************************************************)
(* The codec runs: a first call (MobileBlock.factory on a string, or the   *)
(* constructor on seven fields), the block's block_id read, then           *)
(* MobileBlock.factory called again on that id or on a re-casing of the    *)
(* first string.                                                           *)
(***************************************************************************)
Call(op, id, made) ==
  [op |-> op, block_id |-> id, args |-> made.args, ret |-> made.ret,
   read |-> FALSE, id |-> <<>>]

Init ==
  /\ torch_zero_init \in BOOLEAN
  /\ calls = <<>>
  /\ module = None
  /\ x = None
  /\ y = None
  /\ block_factory = None

\* block = MobileBlock.factory(t)
Factory(t) ==
  /\ calls' = Append(calls, Call("factory", t, factory(t)))
  /\ UNCHANGED <<torch_zero_init, module, x, y, block_factory>>

\* block = MobileBlock(input_size=..., ..., groups=...)
Construct(a) ==
  /\ calls' = Append(calls,
       Call("MobileBlock", <<>>,
            [args |-> a,
             ret |-> MobileBlock(a[1], a[2], a[3], a[4], a[5], a[6], a[7])]))
  /\ UNCHANGED <<torch_zero_init, module, x, y, block_factory>>

\* block.block_id, of the block the last call returned
BlockId ==
  /\ Len(calls) > 0
  /\ calls[Len(calls)].ret.kind = "MobileBlock"
  /\ ~calls[Len(calls)].read
  /\ calls' = [calls EXCEPT ![Len(calls)].read = TRUE,
                            ![Len(calls)].id = block_id(calls[Len(calls)].ret)]
  /\ UNCHANGED <<torch_zero_init, module, x, y, block_factory>>

\* the strings of a second call: the id just read, or the first string re-cased
SecondInputs ==
  (IF calls[1].read THEN {calls[1].id} ELSE {})
    \cup (IF calls[1].op = "factory" THEN Recasings(calls[1].block_id) ELSE {})

Next ==
  \/ Len(calls) = 0 /\ \E t \in Inputs : Factory(t)
  \/ Len(calls) = 0 /\ \E a \in ConstructArgs : Construct(a)
  \/ Len(calls) = 1 /\ \E t \in SecondInputs : Factory(t)
  \/ BlockId

Spec == Init /\ [][Next]_vars

(***************************************************************************)
(* What the claims speak of, stated apart from the code above: an id is    *)
(* recognised by splitting it at '_', and a value is read by place value.  *)
(***************************************************************************)
\* the pieces of s between the separators c
Split(s, c) ==
  LET cuts == {0, Len(s) + 1} \cup {p \in 1..Len(s) : s[p] = c}
      rank == [p \in cuts |-> Cardinality({q \in cuts : q < p})]
      cut == [k \in 0..(Cardinality(cuts) - 1) |-> CHOOSE p \in cuts : rank[p] = k]
  IN AsTuple([k \in 1..(Cardinality(cuts) - 1) |-> SubSeq(s, cut[k - 1] + 1, cut[k] - 1)])

DecimalDigits == {"0", "1", "2", "3", "4", "5", "6", "7", "8", "9"}

\* piece is the tag followed by one or more decimal digits
IsField(piece, tag) ==
  /\ Len(piece) >= 2
  /\ piece[1] = tag
  /\ \A p \in 2..Len(piece) : piece[p] \in DecimalDigits

\* s is w<digits>_i<digits>_o<digits>_s<digits>_e<digits>_k<digits>_g<digits>
IsIdText(s) ==
  LET pieces == Split(s, "_")
  IN Len(pieces) = 7 /\ \A k \in 1..7 : IsField(pieces[k], Tags[k])

\* the seven digit strings of an id text
Values(s) == LET pieces == Split(s, "_") IN AsTuple([k \in 1..7 |-> Tail(pieces[k])])

RECURSIVE Pow10(_)
Pow10(n) == IF n = 0 THEN 1 ELSE 10 * Pow10(n - 1)

RECURSIVE PlaceValue(_)
PlaceValue(d) ==
  IF Len(d) = 0 THEN 0
  ELSE (CASE d[1] = "0" -> 0 [] d[1] = "1" -> 1 [] d[1] = "2" -> 2 [] d[1] = "3" -> 3
          [] d[1] = "4" -> 4 [] d[1] = "5" -> 5 [] d[1] = "6" -> 6 [] d[1] = "7" -> 7
          [] d[1] = "8" -> 8 [] d[1] = "9" -> 9) * Pow10(Len(d) - 1)
       + PlaceValue(Tail(d))

\* the longest id text s begins with (empty when it begins with none): six
\* whole fields, then the tag g with all the digits that follow it
LongestIdPrefix(s) ==
  LET pieces == Split(s, "_")
  IN IF Len(pieces) < 7 \/ \E k \in 1..6 : ~IsField(pieces[k], Tags[k]) THEN <<>>
     ELSE LET last == pieces[7]
              stops == {p \in 2..Len(last) : last[p] \notin DecimalDigits}
              n == IF stops = {} THEN Len(last)
                   ELSE (CHOOSE p \in stops : \A q \in stops : p <= q) - 1
          IN IF Len(last) < 2 \/ last[1] # Tags[7] \/ n < 2 THEN <<>>
             ELSE join(<<"_">>, SubSeq(pieces, 1, 6) \o <<SubSeq(last, 1, n)>>)

\* the id texts in s, each as far to the right as it goes, by where they start
IdsIn(s) ==
  LET at == [p \in {q \in 1..Len(s) : s[q] = "w"} |-> LongestIdPrefix(SubSeq(s, p, Len(s)))]
  IN [p \in {q \in DOMAIN at : at[q] # <<>>} |-> at[p]]

ContainsId(s) == DOMAIN IdsIn(s) # {}

\* the leftmost id text in s
LeftmostId(s) ==
  LET ids == IdsIn(s)
  IN ids[CHOOSE p \in DOMAIN ids : \A q \in DOMAIN ids : p <= q]

\* canonical: an id text and nothing else, lower-case tags, no leading zeros
Canonical(s) ==
  /\ IsIdText(s)
  /\ LET v == Values(s) IN \A k \in 1..7 : Len(v[k]) = 1 \/ v[k][1] # "0"

\* a and b differ at most in the case of their letters
SameUpToCase(a, b) ==
  /\ Len(a) = Len(b)
  /\ \A p \in 1..Len(a) :
       \/ a[p] = b[p]
       \/ \E j \in 1..26 : {a[p], b[p]} = {ascii_uppercase[j], ascii_lowercase[j]}

\* the seven fields of a block, in the order of the id
Fields(b) ==
  <<b.input_size, b.in_channels, b.out_channels, b.stride, b.expansion, b.kernel, b.groups>>

IsBlock(r) == r.kind = "MobileBlock"

IsParseError(r) ==
  /\ r.kind = "raise"
  /\ Len(r.message) >= Len(ParseErrorPrefix)
  /\ SubSeq(r.message, 1, Len(ParseErrorPrefix)) = ParseErrorPrefix

FactoryCalls == {i \in 1..Len(calls) : calls[i].op = "factory"}

(***************************************************************************)
(* The codec claims, checked under Spec.                                   *)
(***************************************************************************)
\* the constructor must refuse these fields, whatever the torch installed
MustRefuse(v) == v[2] = 0 \/ v[5] = 0 \/ v[7] = 0 \/ v[2] % v[7] # 0 \/ v[3] % v[7] # 0

\* the constructor accepts these fields, whatever the torch installed
MustAccept(v) ==
  /\ v[2] > 0 /\ v[3] > 0 /\ v[5] > 0 /\ v[6] > 0 /\ v[7] > 0
  /\ v[2] % v[7] = 0
  /\ v[3] % v[7] = 0

\* C1 as stated: for every canonically-formatted id t, MobileBlock.factory(t)
\* returns a block, and that block's block_id is t.
C1_EveryCanonicalIdRoundTrips ==
  \A i \in FactoryCalls :
    Canonical(calls[i].block_id) =>
      /\ IsBlock(calls[i].ret)
      /\ calls[i].read => calls[i].id = calls[i].block_id

\* C1 amended: for every canonically-formatted id t whose seven values the
\* block constructor accepts, MobileBlock.factory(t).block_id == t.  The
\* constructor accepts them when in_channels, out_channels, expansion, kernel
\* and groups are positive and groups divides in_channels and out_channels; it
\* refuses them, with torch's error and not a ParseError, when in_channels,
\* expansion or groups is 0 or groups does not divide both channel counts.
C1_AcceptedCanonicalIdRoundTrips ==
  \A i \in FactoryCalls :
    Canonical(calls[i].block_id) =>
      /\ MustAccept(calls[i].args) => IsBlock(calls[i].ret)
      /\ MustRefuse(calls[i].args) =>
           calls[i].ret.kind = "raise" /\ ~IsParseError(calls[i].ret)
      /\ IsBlock(calls[i].ret) /\ calls[i].read => calls[i].id = calls[i].block_id

\* a canonical id with values of several digits has been decoded and read back
C1_Witness ==
  \E i \in FactoryCalls :
    /\ Canonical(calls[i].block_id)
    /\ \E k \in 1..7 : Len(Values(calls[i].block_id)[k]) > 1
    /\ IsBlock(calls[i].ret)
    /\ calls[i].read
    /\ calls[i].id = calls[i].block_id

\* C2: for every spec s the constructor accepts, decoding the block_id of the
\* block built from s yields a block whose seven fields equal those of s.
C2_DecodeOfEncodeIsSpec ==
  (/\ Len(calls) = 2
   /\ calls[1].op = "MobileBlock"
   /\ calls[1].read
   /\ calls[2].block_id = calls[1].id)
  => /\ IsBlock(calls[2].ret)
     /\ Fields(calls[2].ret) = calls[1].args

\* the spec of the repository's test went through block_id and factory
C2_Witness ==
  /\ Len(calls) = 2
  /\ calls[1].op = "MobileBlock"
  /\ calls[1].args = <<112, 16, 32, 1, 10, 3, 2>>
  /\ calls[1].read
  /\ calls[2].block_id = calls[1].id
  /\ IsBlock(calls[2].ret)

\* C3: when the id pattern matches nowhere in the lower-cased input,
\* MobileBlock.factory raises the error whose text is 'ParseError: ' followed
\* by the input exactly as given, and the constructor is never called.
C3_NoMatchRaisesParseError ==
  \A i \in FactoryCalls :
    ~ContainsId(lower(calls[i].block_id)) =>
      /\ calls[i].ret = Raise("ValueError", ParseErrorPrefix \o calls[i].block_id)
      /\ calls[i].args = <<>>

\* an input with upper-case letters and no id in it was refused
C3_Witness ==
  \E i \in FactoryCalls :
    /\ ~ContainsId(lower(calls[i].block_id))
    /\ calls[i].block_id # lower(calls[i].block_id)
    /\ IsParseError(calls[i].ret)

\* C7: a re-casing of an accepted id yields the same seven fields, and a
\* block_id has lower-case tags and values without leading zeros.
C7_CaseInsensitiveDecodeLowercaseEncode ==
  /\ (/\ Len(calls) = 2
      /\ calls[1].op = "factory"
      /\ IsBlock(calls[1].ret)
      /\ SameUpToCase(calls[1].block_id, calls[2].block_id))
     => /\ IsBlock(calls[2].ret)
        /\ Fields(calls[2].ret) = Fields(calls[1].ret)
  /\ \A i \in 1..Len(calls) : calls[i].read => Canonical(calls[i].id)

\* an id was accepted, then a re-casing of it that is another string, and the
\* block_id of the second block was read
C7_Witness ==
  /\ Len(calls) = 2
  /\ calls[1].op = "factory"
  /\ IsBlock(calls[1].ret)
  /\ SameUpToCase(calls[1].block_id, calls[2].block_id)
  /\ calls[2].block_id # calls[1].block_id
  /\ calls[2].block_id # lower(calls[2].block_id)
  /\ calls[2].read

\* C8: a string that contains an id text, whatever stands before or after it,
\* raises no ParseError, and the constructor is called with the seven values
\* of the leftmost id text in it.
C8_UnanchoredLeftmostMatch ==
  \A i \in FactoryCalls :
    ContainsId(lower(calls[i].block_id)) =>
      /\ ~IsParseError(calls[i].ret)
      /\ LET v == Values(LeftmostId(lower(calls[i].block_id)))
         IN calls[i].args = [k \in 1..7 |-> PlaceValue(v[k])]
      /\ IsBlock(calls[i].ret) => Fields(calls[i].ret) = calls[i].args

\* a string with text before its first id and a different id after it built
\* a block
C8_Witness ==
  \E i \in FactoryCalls :
    LET t == lower(calls[i].block_id)
    IN /\ ContainsId(t)
       /\ t[1] # "w"
       /\ LET parse == findall(t) IN Len(parse) = 2 /\ parse[1] # parse[2]
       /\ IsBlock(calls[i].ret)

\* C10: for every string t that MobileBlock.factory accepts, the id
\* u = MobileBlock.factory(t).block_id is accepted, gives the same seven
\* fields, and is its own block_id.
C10_NormalisationIsIdempotent ==
  (/\ Len(calls) = 2
   /\ calls[1].op = "factory"
   /\ calls[1].read
   /\ calls[2].block_id = calls[1].id)
  => /\ IsBlock(calls[2].ret)
     /\ Fields(calls[2].ret) = Fields(calls[1].ret)
     /\ calls[2].read => calls[2].id = calls[2].block_id

\* the id of a block decoded from a string that is not canonical was decoded
\* and read again
C10_Witness ==
  /\ Len(calls) = 2
  /\ calls[1].op = "factory"
  /\ calls[1].read
  /\ ~Canonical(calls[1].block_id)
  /\ calls[2].block_id = calls[1].id
  /\ calls[2].read
  /\ calls[2].id = calls[1].id

(***************************************************************************)
(* forward.  In the block runs a tensor is its size (n, c, h, w): the      *)
(* values a convolution computes are not modelled.  A freshly constructed  *)
(* module is in training mode.                                             *)
(***************************************************************************)
Tensor(size) == [kind |-> "Tensor", size |-> size]

\* nn.Conv2d.forward: the input must have the stage's in_channels, the stride
\* must be positive and the padded input at least as large as the kernel; the
\* spatial sizes follow (size + 2 * padding - kernel_size) // stride + 1.
Conv2d_forward(self, size) ==
  IF size[2] # self.in_channels
  THEN Raise("RuntimeError", <<"expected input to have in_channels channels">>)
  ELSE IF self.stride <= 0
  THEN Raise("RuntimeError", <<"non-positive stride is not supported">>)
  ELSE IF \/ self.kernel_size <= 0
          \/ size[3] + 2 * self.padding < self.kernel_size
          \/ size[4] + 2 * self.padding < self.kernel_size
  THEN Raise("RuntimeError", <<"kernel size can't be greater than actual input size">>)
  ELSE Tensor(<<size[1], self.out_channels,
                (size[3] + 2 * self.padding - self.kernel_size) \div self.stride + 1,
                (size[4] + 2 * self.padding - self.kernel_size) \div self.stride + 1>>)

\* nn.BatchNorm2d.forward in training mode: the channels must be num_features,
\* and there must be more than one value per channel; the size is kept.
BatchNorm2d_forward(self, size) ==
  IF size[2] # self.num_features
  THEN Raise("RuntimeError", <<"running_mean should contain num_features elements">>)
  ELSE IF size[1] * size[3] * size[4] = 1
  THEN Raise("ValueError", <<"Expected more than 1 value per channel when training">>)
  ELSE Tensor(size)

\* ShuffleBlock.forward on sizes: view(n, g, c // g, h, w) needs g * (c // g) = c
ShuffleBlock_forward_size(self, size) ==
  IF self.groups = 0
  THEN Raise("ZeroDivisionError", <<"integer division or modulo by zero">>)
  ELSE IF self.groups * (size[2] \div self.groups) # size[2]
  THEN Raise("RuntimeError", <<"shape is invalid for input of size">>)
  ELSE Tensor(size)

stage_forward(stage, size) ==
  CASE stage.kind = "Conv2d" -> Conv2d_forward(stage, size)
    [] stage.kind = "BatchNorm2d" -> BatchNorm2d_forward(stage, size)
    [] stage.kind = "ShuffleBlock" -> ShuffleBlock_forward_size(stage, size)
    [] stage.kind = "ReLU" -> Tensor(size)
    [] stage.kind = "Sequential" -> Tensor(size)

\* nn.Sequential.forward: each stage is given what the stage before returned;
\* sizes[i] is what stage i returned, and a stage that raises ends the run.
RECURSIVE Sequential_forward(_, _, _)
Sequential_forward(stages, size, sizes) ==
  IF Len(stages) = 0
  THEN [kind |-> "Tensor", size |-> size, sizes |-> sizes]
  ELSE LET out == stage_forward(stages[1], size)
       IN IF out.kind = "raise" THEN out
          ELSE Sequential_forward(Tail(stages), out.size, Append(sizes, out.size))

\* MobileBlock.forward
forward(self, size) == Sequential_forward(self.block, size, <<>>)

MaxChannels == 2   \* the largest channel count and groups of a block that is run
MaxSide == 3       \* the largest height and width of an input

\* the blocks that are run: (input_size, in_channels, out_channels, stride,
\* expansion, kernel, groups)
ForwardArgs ==
  { <<112, 16, 32, 1, 10, 3, 1>>, <<112, 16, 32, 1, 10, 3, 2>> }
    \cup { <<w, i, o, s, e, k, g>> :
             w \in {7}, i \in 1..MaxChannels, o \in 1..MaxChannels, s \in {0, 1, 2, 3},
             e \in {1, 2}, k \in {1, 2, 3, 5}, g \in 1..MaxChannels }

\* the sizes of the inputs
ForwardSizes ==
  { <<1, 16, 112, 112>> }
    \cup { <<n, c, h, w>> :
             n \in {1, 2}, c \in 1..MaxChannels, h \in 1..MaxSide, w \in 1..MaxSide }

\* module = MobileBlock(...)
ConstructModule(a) ==
  /\ module = None
  /\ module' = MobileBlock(a[1], a[2], a[3], a[4], a[5], a[6], a[7])
  /\ UNCHANGED <<torch_zero_init, calls, x, y, block_factory>>

\* y = module(x)
Forward(size) ==
  /\ module.kind = "MobileBlock"
  /\ x = None
  /\ x' = Tensor(size)
  /\ y' = forward(module, size)
  /\ UNCHANGED <<torch_zero_init, calls, module, block_factory>>

NextForward ==
  \/ \E a \in ForwardArgs : ConstructModule(a)
  \/ \E size \in ForwardSizes : Forward(size)

SpecForward == Init /\ [][NextForward]_vars

(***************************************************************************)
(* The shape claim, checked under SpecForward.                             *)
(***************************************************************************)
\* (side + 2 * (kernel div 2) - kernel) div stride + 1
OutSide(side, kernel, stride) == (side + 2 * (kernel \div 2) - kernel) \div stride + 1

\* a block with positive stride and odd kernel was given an input with the
\* block's in_channels
C6_Case ==
  /\ y # None
  /\ module.stride >= 1
  /\ module.kernel % 2 = 1
  /\ x.size[2] = module.in_channels

\* forward returned (n, out_channels, h', w'); the stages before the depthwise
\* convolution returned the input's height and width, the depthwise
\* convolution and the stages after it h' and w'; with stride 1, h' = h and
\* w' = w
C6_Shape ==
  LET hh == OutSide(x.size[3], module.kernel, module.stride)
      ww == OutSide(x.size[4], module.kernel, module.stride)
  IN /\ y.kind = "Tensor"
     /\ y.size = <<x.size[1], module.out_channels, hh, ww>>
     /\ Len(y.sizes) = 9
     /\ \A i \in 1..4 : y.sizes[i][3] = x.size[3] /\ y.sizes[i][4] = x.size[4]
     /\ \A i \in 5..9 : y.sizes[i][3] = hh /\ y.sizes[i][4] = ww
     /\ module.stride = 1 => hh = x.size[3] /\ ww = x.size[4]

\* C6 as stated: for a block with odd kernel and every input of shape
\* (n, in_channels, h, w), forward returns an array of shape
\* (n, out_channels, h', w'), h' = (h + 2*(kernel div 2) - kernel) div stride + 1
\* and likewise w'; the pointwise and shuffle stages keep h and w, and stride 1
\* keeps the spatial size.
C6_ForwardShapeForEveryInput == C6_Case => C6_Shape

\* C6 amended: the same, for every input that gives each normalisation stage
\* (in training mode, as constructed) more than one value per channel, that is
\* n*h*w > 1 and n*h'*w' > 1.
C6_ForwardShapeWhenNormalisable ==
  (/\ C6_Case
   /\ x.size[1] * x.size[3] * x.size[4] > 1
   /\ x.size[1] * OutSide(x.size[3], module.kernel, module.stride)
                * OutSide(x.size[4], module.kernel, module.stride) > 1)
  => C6_Shape

\* the run of the repository's test, with groups = 2: (1, 16, 112, 112) in,
\* (1, 32, 112, 112) out
C6_Witness ==
  /\ C6_Case
  /\ module.groups = 2
  /\ x.size = <<1, 16, 112, 112>>
  /\ y.kind = "Tensor"
  /\ y.size = <<1, 32, 112, 112>>

(***************************************************************************)
(* ShuffleBlock.forward on values.  A strided tensor is its size, the      *)
(* stride of each axis and its storage; the element at index idx (from 0)  *)
(* is storage[1 + sum of idx[d] * stride[d]].                              *)
(***************************************************************************)
RECURSIVE prod(_)
prod(size) == IF Len(size) = 0 THEN 1 ELSE size[1] * prod(Tail(size))

\* the strides of a contiguous (row-major) tensor of this size
contiguous_stride(size) ==
  AsTuple([d \in 1..Len(size) |-> prod(SubSeq(size, d + 1, Len(size)))])

RECURSIVE dot(_, _)
dot(a, b) == IF Len(a) = 0 THEN 0 ELSE a[1] * b[1] + dot(Tail(a), Tail(b))

\* x[idx]
item(t, idx) == t.storage[1 + dot(idx, t.stride)]

\* the index of the k-th element (from 0) of a tensor of this size, row-major
unravel(k, size) ==
  LET stride == contiguous_stride(size)
  IN AsTuple([d \in 1..Len(size) |-> (k \div stride[d]) % size[d]])

\* the transposition left out: the tensor as it was
transpose_skipped(t, d0, d1) == t

\* x.transpose(d0, d1), axes counted from 0; the storage is shared
transpose(t, d0, d1) ==
  [t EXCEPT !.size = [t.size EXCEPT ![d0 + 1] = t.size[d1 + 1], ![d1 + 1] = t.size[d0 + 1]],
            !.stride = [t.stride EXCEPT ![d0 + 1] = t.stride[d1 + 1],
                                        ![d1 + 1] = t.stride[d0 + 1]]]

\* x.contiguous(): the elements copied in row-major order
contiguous(t) ==
  [kind |-> "Tensor", size |-> t.size, stride |-> contiguous_stride(t.size),
   storage |-> AsTuple([k \in 1..prod(t.size) |-> item(t, unravel(k - 1, t.size))])]

\* x.view(size): the same storage read with another size.  The k-th element
\* in row-major order must stay the k-th element, so the stride of an axis is
\* the distance in storage between index 0 and index 1 on it (an axis of size
\* 1 gets its contiguous stride); view raises when the numbers of elements
\* differ or when no strides read the storage in that order.
view(t, size) ==
  IF prod(size) # prod(t.size)
  THEN Raise("RuntimeError", <<"shape is invalid for input of size">>)
  ELSE LET at(k) == dot(unravel(k, t.size), t.stride)
           unit == contiguous_stride(size)
           stride == AsTuple([d \in 1..Len(size) |->
                               IF size[d] > 1 THEN at(unit[d]) - at(0) ELSE unit[d]])
       IN IF \E k \in 0..(prod(size) - 1) : dot(unravel(k, size), stride) # at(k)
          THEN Raise("RuntimeError",
                     <<"view size is not compatible with input tensor's size and stride">>)
          ELSE [kind |-> "Tensor", size |-> size, stride |-> stride, storage |-> t.storage]

\* ShuffleBlock.forward
ShuffleBlock_forward(self, t) ==
  LET n == t.size[1]
      c == t.size[2]
      h == t.size[3]
      w == t.size[4]
      g == self.groups
  IN IF g = 0 THEN Raise("ZeroDivisionError", <<"integer division or modulo by zero">>)
     ELSE LET grouped == view(t, <<n, g, c \div g, h, w>>)
          IN IF grouped.kind = "raise" THEN grouped
             ELSE view(contiguous(transpose(grouped, 1, 2)), <<n, c, h, w>>)

MaxShuffleChannels == 6   \* the most channels of a shuffled tensor
MaxShuffleGroups == 4     \* the most groups of a ShuffleBlock
MaxShuffleSide == 2       \* the largest batch, height and width of a shuffled tensor

\* torch.arange(n * c * h * w).view(n, c, h, w): every element its own value
arange(size) ==
  [kind |-> "Tensor", size |-> size, stride |-> contiguous_stride(size),
   storage |-> AsTuple([k \in 1..prod(size) |-> k - 1])]

ShuffleSizes ==
  { <<n, c, h, w>> : n \in 1..MaxShuffleSide, c \in 1..MaxShuffleChannels,
                     h \in 1..MaxShuffleSide, w \in 1..MaxShuffleSide }

\* the tensors of a size: contiguous, and the transposes of contiguous
\* tensors, which are not
ShuffleInputs(size) ==
  { arange(size) }
    \cup { transpose(arange([size EXCEPT ![a + 1] = size[b + 1], ![b + 1] = size[a + 1]]), a, b) :
             a \in {0, 1, 2}, b \in {1, 3} }

\* module = ShuffleBlock(groups)
ConstructShuffle(groups) ==
  /\ module = None
  /\ module' = ShuffleBlock(groups)
  /\ UNCHANGED <<torch_zero_init, calls, x, y, block_factory>>

\* y = module(x)
Shuffle(t) ==
  /\ module.kind = "ShuffleBlock"
  /\ x = None
  /\ x' = t
  /\ y' = ShuffleBlock_forward(module, t)
  /\ UNCHANGED <<torch_zero_init, calls, module, block_factory>>

NextShuffle ==
  \/ \E groups \in 0..MaxShuffleGroups : ConstructShuffle(groups)
  \/ \E size \in ShuffleSizes : \E t \in ShuffleInputs(size) : Shuffle(t)

SpecShuffle == Init /\ [][NextShuffle]_vars

(***************************************************************************)
(* The shuffle claim, checked under SpecShuffle.                           *)
(***************************************************************************)
\* a ShuffleBlock was given a tensor whose channels its groups divide
C9_Case ==
  /\ y # None
  /\ module.groups >= 1
  /\ x.size[2] % module.groups = 0

\* C9: with g dividing c, ShuffleBlock.forward permutes the channel axis:
\* output channel j*g + i is input channel i*(c/g) + j for i in 0..g-1 and
\* j in 0..c/g-1; the map is a bijection on 0..c-1, the shape and the values
\* are kept, and for g = 1 the output is the input.
C9_ShuffleIsChannelPermutation ==
  C9_Case =>
    LET g == module.groups
        c == x.size[2]
        Source(k) == (k % g) * (c \div g) + (k \div g)
        Rest == (0..(x.size[1] - 1)) \X (0..(x.size[3] - 1)) \X (0..(x.size[4] - 1))
    IN /\ y.kind = "Tensor"
       /\ y.size = x.size
       /\ \A i \in 0..(g - 1), j \in 0..((c \div g) - 1), r \in Rest :
            item(y, <<r[1], j * g + i, r[2], r[3]>>)
              = item(x, <<r[1], i * (c \div g) + j, r[2], r[3]>>)
       /\ {Source(k) : k \in 0..(c - 1)} = 0..(c - 1)
       /\ \A k \in 0..(c - 1), r \in Rest :
            item(y, <<r[1], k, r[2], r[3]>>) = item(x, <<r[1], Source(k), r[2], r[3]>>)
       /\ g = 1 =>
            \A k \in 0..(c - 1), r \in Rest :
              item(y, <<r[1], k, r[2], r[3]>>) = item(x, <<r[1], k, r[2], r[3]>>)

\* six channels in two groups of a tensor that is not contiguous, with more
\* than one row and column, were shuffled, and channel 1 is no longer channel 1
C9_Witness ==
  /\ C9_Case
  /\ module.groups = 2
  /\ x.size = <<2, 6, 2, 2>>
  /\ x.stride # contiguous_stride(x.size)
  /\ y.kind = "Tensor"
  /\ item(y, <<0, 1, 0, 0>>) # item(x, <<0, 1, 0, 0>>)

(***************************************************************************)
(* BlockFactory and SkipBlock.  The test imports both from mobile_block,   *)
(* whose source holds neither; they are modelled from the specification's  *)
(* section 4.4.  The block a factory builds is MobileBlock above.          *)
(***************************************************************************)
BlockSuffix == <<"B", "l", "o", "c", "k">>

SkipBlockName == <<"S", "k", "i", "p">> \o BlockSuffix

\* SkipBlock(...): the variant without the pipeline
SkipBlock(input_size, in_channels, out_channels, stride) ==
  [kind |-> "SkipBlock", input_size |-> input_size, in_channels |-> in_channels,
   out_channels |-> out_channels, stride |-> stride]

\* the factory whose name is written anew from the numbers it captured
BlockFactory_factory_renamed(block_name) ==
  LET k == digit_run(block_name, 2)
      e == digit_run(block_name, 3 + k)
      g == digit_run(block_name, 4 + k + e)
      number(p, n) == int(SubSeq(block_name, p, p + n - 1))
  IN IF block_name = SkipBlockName
     THEN [kind |-> "BlockFactory", block_name |-> block_name, variant |-> "SkipBlock"]
     ELSE IF /\ Len(block_name) = 3 + k + e + g + Len(BlockSuffix)
             /\ k >= 1 /\ e >= 1 /\ g >= 1
             /\ block_name[1] = "K"
             /\ block_name[2 + k] = "E"
             /\ block_name[3 + k + e] = "G"
             /\ SubSeq(block_name, 4 + k + e + g, Len(block_name)) = BlockSuffix
     THEN [kind |-> "BlockFactory",
           block_name |-> <<"K">> \o format_int(number(2, k))
                            \o <<"E">> \o format_int(number(3 + k, e))
                            \o <<"G">> \o format_int(number(4 + k + e, g))
                            \o BlockSuffix,
           variant |-> "MobileBlock",
           kernel |-> number(2, k),
           expansion |-> number(3 + k, e),
           groups |-> number(4 + k + e, g)]
     ELSE Raise("ParseError", block_name)

\* BlockFactory.factory(block_name): the whole name is K<digits>E<digits>
\* G<digits>Block or SkipBlock, letters as written; any other name is a
\* ParseError carrying the name
BlockFactory_factory(block_name) ==
  LET k == digit_run(block_name, 2)
      e == digit_run(block_name, 3 + k)
      g == digit_run(block_name, 4 + k + e)
      number(p, n) == int(SubSeq(block_name, p, p + n - 1))
  IN IF block_name = SkipBlockName
     THEN [kind |-> "BlockFactory", block_name |-> block_name, variant |-> "SkipBlock"]
     ELSE IF /\ Len(block_name) = 3 + k + e + g + Len(BlockSuffix)
             /\ k >= 1 /\ e >= 1 /\ g >= 1
             /\ block_name[1] = "K"
             /\ block_name[2 + k] = "E"
             /\ block_name[3 + k + e] = "G"
             /\ SubSeq(block_name, 4 + k + e + g, Len(block_name)) = BlockSuffix
     THEN [kind |-> "BlockFactory",
           block_name |-> block_name,
           variant |-> "MobileBlock",
           kernel |-> number(2, k),
           expansion |-> number(3 + k, e),
           groups |-> number(4 + k + e, g)]
     ELSE Raise("ParseError", block_name)

\* block_factory(input_size, in_channels, out_channels, stride)
BlockFactory_call(self, input_size, in_channels, out_channels, stride) ==
  IF self.variant = "SkipBlock"
  THEN SkipBlock(input_size, in_channels, out_channels, stride)
  ELSE MobileBlock(input_size, in_channels, out_channels, stride,
                   self.expansion, self.kernel, self.groups)

MaxInvocations == 2

\* the numbers written in the names
NameNumbers ==
  { <<"0">>, <<"1">>, <<"2">>, <<"3">>, <<"0", "3">>, <<"1", "0">> }

FactoryName(k, e, g) == <<"K">> \o k \o <<"E">> \o e \o <<"G">> \o g \o BlockSuffix

\* the names of the grammar with two of the three numbers 1, the name of the
\* repository's test, and names with two numbers of several digits
GrammarNames ==
  { FactoryName(k, <<"1">>, <<"1">>) : k \in NameNumbers }
    \cup { FactoryName(<<"1">>, e, <<"1">>) : e \in NameNumbers }
    \cup { FactoryName(<<"1">>, <<"1">>, g) : g \in NameNumbers }
    \cup { FactoryName(<<"3">>, <<"1", "0">>, <<"2">>),
           FactoryName(<<"0", "3">>, <<"1", "0">>, <<"0", "2">>),
           FactoryName(<<"3">>, <<"2">>, <<"2">>) }

\* names outside the grammar: letters in the other case, a number or the
\* suffix missing, numbers in another order, text before or after
OtherNames ==
  { <<>>, BlockSuffix, lower(SkipBlockName), upper(SkipBlockName),
    SkipBlockName \o <<"s">>, <<"K", "3", "E", "1", "0", "G", "2">>,
    lower(FactoryName(<<"3">>, <<"1", "0">>, <<"2">>)),
    FactoryName(<<>>, <<"1">>, <<"1">>),
    FactoryName(<<"1">>, <<"1">>, <<>>),
    FactoryName(<<"1">>, <<"x">>, <<"1">>),
    <<"K", "3", "G", "2", "E", "1", "0">> \o BlockSuffix,
    <<"x">> \o FactoryName(<<"3">>, <<"1", "0">>, <<"2">>),
    FactoryName(<<"3">>, <<"1", "0">>, <<"2">>) \o <<"s">> }

FactoryNames == GrammarNames \cup {SkipBlockName} \cup OtherNames

\* (input_size, in_channels, out_channels, stride) of the calls: those of the
\* test, and small ones, channel counts of 0 and odd ones among them
ShapeArgs ==
  { <<112, 16, 32, 1>>, <<7, 1, 1, 1>>, <<7, 2, 2, 2>>, <<10, 1, 2, 1>>,
    <<7, 2, 1, 1>>, <<7, 3, 3, 2>>, <<7, 0, 2, 1>>, <<0, 2, 0, 1>> }

\* block_factory = BlockFactory.factory(block_name=name)
FactoryByName(name) ==
  /\ block_factory = None
  /\ block_factory' = [op |-> "BlockFactory.factory", block_name |-> name,
                       ret |-> BlockFactory_factory(name)]
  /\ UNCHANGED <<torch_zero_init, calls, module, x, y>>

\* block = block_factory(input_size=..., in_channels=..., out_channels=...,
\* stride=...), and block.block_id when a MobileBlock came back
Invoke(a) ==
  /\ block_factory # None
  /\ block_factory.ret.kind = "BlockFactory"
  /\ Len(calls) < MaxInvocations
  /\ LET block == BlockFactory_call(block_factory.ret, a[1], a[2], a[3], a[4])
     IN calls' = Append(calls,
                        [op |-> "__call__", args |-> a, ret |-> block,
                         id |-> IF block.kind = "MobileBlock" THEN block_id(block)
                                ELSE <<>>])
  /\ UNCHANGED <<torch_zero_init, module, x, y, block_factory>>

NextFactory ==
  \/ \E name \in FactoryNames : FactoryByName(name)
  \/ \E a \in ShapeArgs : Invoke(a)

SpecFactory == Init /\ [][NextFactory]_vars

(***************************************************************************)
(* The factory claims, checked under SpecFactory.  A name of the grammar   *)
(* is recognised here by where its letters stand.                          *)
(***************************************************************************)
\* where E and G stand in a name K<digits>E<digits>G<digits>Block
NameCuts(name) ==
  { c \in (1..Len(name)) \X (1..Len(name)) :
      /\ 2 < c[1] /\ c[1] + 1 < c[2] /\ c[2] + 1 + Len(BlockSuffix) = Len(name)
      /\ name[1] = "K" /\ name[c[1]] = "E" /\ name[c[2]] = "G"
      /\ \A p \in (2..(c[1] - 1)) \cup ((c[1] + 1)..(c[2] - 1))
                    \cup ((c[2] + 1)..(Len(name) - Len(BlockSuffix))) :
           name[p] \in DecimalDigits
      /\ SubSeq(name, Len(name) - Len(BlockSuffix) + 1, Len(name)) = BlockSuffix }

IsGrammarName(name) == NameCuts(name) # {}

\* kernel, expansion and groups of a name of the grammar
NameValues(name) ==
  LET c == CHOOSE d \in NameCuts(name) : TRUE
  IN << PlaceValue(SubSeq(name, 2, c[1] - 1)),
        PlaceValue(SubSeq(name, c[1] + 1, c[2] - 1)),
        PlaceValue(SubSeq(name, c[2] + 1, Len(name) - Len(BlockSuffix))) >>

\* the seven values a call of the factory of a grammar name hands to the
\* constructor, in the order of the id: shape arguments, then expansion,
\* kernel, groups
CallSpec(name, a) ==
  LET v == NameValues(name) IN <<a[1], a[2], a[3], a[4], v[2], v[1], v[3]>>

\* id is the canonical id text of the seven values
IsIdOf(id, values) ==
  /\ Canonical(id)
  /\ \A k \in 1..7 : PlaceValue(Values(id)[k]) = values[k]

GrammarFactory ==
  /\ block_factory # None
  /\ IsGrammarName(block_factory.block_name)

============================================================================
